---- MODULE Spec2Model ----
(***************************************************************************)
(* FloatFIFO, the single-producer/single-consumer frame ring shared by the *)
(* loopback programs (ALSA, CoreAudio VPIO, WASAPI, Oboe, iOS), with one   *)
(* capture context calling push and one playback context calling pop.      *)
(*                                                                         *)
(* uint32_t arithmetic: every index the ring stores is masked, so it lies  *)
(* in 0..mask.  A uint32_t value v is held here by its two's-complement    *)
(* residue (v itself below 2^31, v - 2^32 above): a negative number d      *)
(* stands for the unsigned value 2^32 + d.  Because the capacity divides   *)
(* 2^32, `x & mask` of such a residue is its floor remainder modulo        *)
(* mask + 1.                                                               *)
(***************************************************************************)
EXTENDS Integers, Sequences, FiniteSets, TLC

\* ------------------------------------------------------------- bounds
MaxSize == 8
MaxPush == 5
MaxPop == 10
MaxSeq == 9
MaxCalls == 3

\* Requested ring sizes, and the batch sizes the two contexts use.
Sizes == 0..MaxSize
PushCounts == 0..MaxPush
PopCounts == 0..MaxPop
\* Batch sizes of the single-threaded test scripts.
TestPushCounts == {1, 3, 4, 5} \cap PushCounts
TestPopCounts == {5, 10} \cap PopCounts

\* The zero sample, and the mark of a destination slot not written yet.
Silence == 0
Unwritten == -1

VARIABLES
    mask, buf, w, r,
    pushPc, pushSrc, pushCount, pushN, pushWi, pushRi, pushI,
    popPc, popDst, popN, popWi, popRi, popGot, popI,
    nextSeq, accepted, popped, trace, pushSteps, popSteps,
    ctorPc, ctorArg, ctorP, ctorLen, ctorMask,
    prog, mainPc, lastCall, startFailed, reported,
    gAudioUnit, unit, inState, outState, gRunning,
    capPc, playPc, capStatus, inNumberFrames

fifo == <<mask, buf, w, r>>
pushFrame == <<pushPc, pushSrc, pushCount, pushN, pushWi, pushRi, pushI>>
popFrame == <<popPc, popDst, popN, popWi, popRi, popGot, popI>>
ctor == <<ctorPc, ctorArg, ctorP, ctorLen, ctorMask>>
\* The control thread of a program: which program runs, where its main or
\* its caller of start and stop stands, the last call that returned, whether
\* a step of the last start failed, and what start gave its caller.
control == <<prog, mainPc, lastCall, startFailed, reported>>
\* The audio session: the unit handle and the unit behind it (VoiceProcessingIO
\* programs), the two streams or devices (Oboe, ALSA), the ALSA run flag.
session == <<gAudioUnit, unit, inState, outState, gRunning>>
\* The capture and playback contexts around push and pop.
contexts == <<capPc, playPc, capStatus, inNumberFrames>>
\* What push and pop never touch.
other == <<ctor, control, session>>
vars == <<mask, buf, w, r,
          pushPc, pushSrc, pushCount, pushN, pushWi, pushRi, pushI,
          popPc, popDst, popN, popWi, popRi, popGot, popI,
          nextSeq, accepted, popped, trace, pushSteps, popSteps,
          ctorPc, ctorArg, ctorP, ctorLen, ctorMask,
          prog, mainPc, lastCall, startFailed, reported,
          gAudioUnit, unit, inState, outState, gRunning,
          capPc, playPc, capStatus, inNumberFrames>>

\* ------------------------------------------------------------- helpers
Min(a, b) == IF a <= b THEN a ELSE b

Range(s) == {s[k] : k \in 1..Len(s)}

IsPrefix(s, t) == Len(s) <= Len(t) /\ SubSeq(t, 1, Len(s)) = s

\* uint32_t subtraction, as a two's-complement residue.
Sub32(a, b) == a - b

\* x & m for m = 2^k - 1.
AndMask(x, m) == x % (m + 1)

\* A uint32_t at full width, for the constructor's argument and its shifted
\* size: the pair <<hi, lo>> of 16-bit halves stands for hi * 2^16 + lo.
U32(hi, lo) == <<hi, lo>>

\* a < b on uint32_t.
Lt32(a, b) == a[1] < b[1] \/ (a[1] = b[1] /\ a[2] < b[2])

\* x <<= 1 on uint32_t: the top bit is shifted out.
Shl32(x) == <<(2 * x[1] + (x[2] \div 32768)) % 65536, (2 * x[2]) % 65536>>

\* x - 1 on uint32_t.
Dec32(x) ==
    IF x[2] > 0 THEN <<x[1], x[2] - 1>>
    ELSE IF x[1] > 0 THEN <<x[1] - 1, 65535>>
    ELSE <<65535, 65535>>

\* x + 1 on uint32_t.
Inc32(x) ==
    IF x[2] < 65535 THEN <<x[1], x[2] + 1>>
    ELSE <<(x[1] + 1) % 65536, 0>>

GrowMoreOrEqual(p, sz) == ~Lt32(sz, p)

\* while (sz < framesPow2): the loop condition, p being the size grown so far
\* and sz the size asked for.
GrowMore(p, sz) == Lt32(p, sz)

\* uint32_t p = 1; while (p < sz) p <<= 1;
RECURSIVE Grow(_, _)
Grow(p, sz) == IF p < sz THEN Grow(2 * p, sz) ELSE p

FifoCapacity(sz) == Grow(1, sz)

\* uint32_t freeFrames = ((mask + 1) - (wi - ri)) & mask;
FreeFramesNoAlias(wi, ri, m) == (m + 1) - AndMask(Sub32(wi, ri), m)

FreeFramesOneLess(wi, ri, m) == AndMask(Sub32(m, Sub32(wi, ri)), m)

FreeFrames(wi, ri, m) == AndMask(Sub32(m + 1, Sub32(wi, ri)), m)

\* uint32_t avail = (wi - ri) & mask;
Avail(wi, ri, m) == AndMask(Sub32(wi, ri), m)

\* if (n > freeFrames) n = freeFrames;
ClampNNone(n, free) == n

ClampN(n, free) == IF n > free THEN free ELSE n

\* uint32_t got = (n <= avail) ? n : avail;
GotAll(n, avail) == n

Got(n, avail) == IF n <= avail THEN n ELSE avail

\* buf[(idx + i) & mask]
Slot(idx, i, m) == AndMask(idx + i, m)

\* w.store((wi + n) & mask)
NewW(wi, n, m) == AndMask(wi + n, m)

\* r.store((ri + got) & mask)
NewRByCount(ri, got, n, m) == AndMask(ri + n, m)

NewR(ri, got, n, m) == AndMask(ri + got, m)

\* if (got < n) memset(dst + got, 0, (n - got) * sizeof(float)): the
\* index one past the last slot zeroed.
PadEndNone(got, n) == got

PadEnd(got, n) == n

\* The frames the capture context supplies: tagged by a strictly increasing
\* sequence number, so that every supplied frame is distinct and non-zero.
Tags(first, n) == [k \in 1..n |-> first + k]

\* ------------------------------------------------------------- Init
\* The ring on its own, with no program around it.
NoProgram ==
    /\ prog = "none" /\ mainPc = "idle" /\ lastCall = "none"
    /\ startFailed = FALSE /\ reported = "nothing"
    /\ gAudioUnit = "null" /\ unit = "none"
    /\ inState = "none" /\ outState = "none" /\ gRunning = TRUE
    /\ capPc = "off" /\ playPc = "off" /\ capStatus = "none"
    /\ inNumberFrames = 0

Init ==
    /\ \E sz \in Sizes : mask = FifoCapacity(sz) - 1
    /\ buf = [s \in 0..mask |-> Silence]
    /\ w = 0
    /\ r = 0
    /\ pushPc = "idle" /\ pushSrc = <<>> /\ pushCount = 0 /\ pushN = 0
    /\ pushWi = 0 /\ pushRi = 0 /\ pushI = 0
    /\ popPc = "idle" /\ popDst = <<>> /\ popN = 0
    /\ popWi = 0 /\ popRi = 0 /\ popGot = 0 /\ popI = 0
    /\ nextSeq = 0
    /\ accepted = <<>>
    /\ popped = <<>>
    /\ trace = <<>>
    /\ pushSteps = 0
    /\ popSteps = 0
    /\ ctorPc = "done"
    /\ ctorArg = U32(0, 0)
    /\ ctorP = U32(0, 0)
    /\ ctorLen = U32(0, mask + 1)
    /\ ctorMask = U32(0, mask)
    /\ NoProgram

\* ------------------------------------------------------------- push
\* The capture context calls push(src, n) with n freshly captured frames.
PushCall(n) ==
    /\ pushPc = "idle"
    /\ nextSeq + n <= MaxSeq
    /\ pushPc' = "loadW"
    /\ pushSrc' = Tags(nextSeq, n)
    /\ pushCount' = n
    /\ pushN' = n
    /\ nextSeq' = nextSeq + n
    /\ pushSteps' = 0
    /\ UNCHANGED <<fifo, pushWi, pushRi, pushI, popFrame, accepted, popped,
                   trace, popSteps>>
    /\ UNCHANGED other

\* uint32_t wi = w.load(std::memory_order_relaxed);
PushLoadW ==
    /\ pushPc = "loadW"
    /\ pushWi' = w
    /\ pushPc' = "loadR"
    /\ pushSteps' = pushSteps + 1
    /\ UNCHANGED <<fifo, pushSrc, pushCount, pushN, pushRi, pushI, popFrame,
                   nextSeq, accepted, popped, trace, popSteps>>
    /\ UNCHANGED other

\* uint32_t ri = r.load(std::memory_order_acquire);
PushLoadR ==
    /\ pushPc = "loadR"
    /\ pushRi' = r
    /\ pushPc' = "clamp"
    /\ pushSteps' = pushSteps + 1
    /\ UNCHANGED <<fifo, pushSrc, pushCount, pushN, pushWi, pushI, popFrame,
                   nextSeq, accepted, popped, trace, popSteps>>
    /\ UNCHANGED other

\* A push that waits for room instead of clamping.
PushClampWait ==
    /\ pushPc = "clamp"
    /\ FreeFrames(pushWi, r, mask) >= pushN
    /\ pushI' = 0
    /\ pushPc' = "copy"
    /\ pushSteps' = pushSteps + 1
    /\ UNCHANGED <<fifo, pushSrc, pushCount, pushN, pushWi, pushRi, popFrame,
                   nextSeq, accepted, popped, trace, popSteps>>
    /\ UNCHANGED other

\* A push that makes room by dropping the oldest unread frames.
PushClampDropOldest ==
    /\ pushPc = "clamp"
    /\ r' = AndMask(r + (pushN - ClampN(pushN, FreeFrames(pushWi, pushRi, mask))),
                    mask)
    /\ pushI' = 0
    /\ pushPc' = "copy"
    /\ pushSteps' = pushSteps + 1
    /\ UNCHANGED <<mask, buf, w, pushSrc, pushCount, pushN, pushWi, pushRi,
                   popFrame, nextSeq, accepted, popped, trace, popSteps>>
    /\ UNCHANGED other

\* freeFrames = ...; if (n > freeFrames) n = freeFrames;
PushClamp ==
    /\ pushPc = "clamp"
    /\ pushN' = ClampN(pushN, FreeFrames(pushWi, pushRi, mask))
    /\ pushI' = 0
    /\ pushPc' = "copy"
    /\ pushSteps' = pushSteps + 1
    /\ UNCHANGED <<fifo, pushSrc, pushCount, pushWi, pushRi, popFrame,
                   nextSeq, accepted, popped, trace, popSteps>>
    /\ UNCHANGED other

\* for (i = 0; i < n; ++i) buf[(wi + i) & mask] = src[i];
\* and, when the loop ends, w.store((wi + n) & mask, release); return n;
PushLoop ==
    /\ pushPc = "copy"
    /\ pushSteps' = pushSteps + 1
    /\ IF pushI < pushN
         THEN /\ buf' = [buf EXCEPT ![Slot(pushWi, pushI, mask)] = pushSrc[pushI + 1]]
              /\ pushI' = pushI + 1
              /\ UNCHANGED <<mask, w, r, pushPc, accepted>>
         ELSE /\ w' = NewW(pushWi, pushN, mask)
              /\ accepted' = accepted \o SubSeq(pushSrc, 1, pushN)
              /\ pushPc' = "ret"
              /\ UNCHANGED <<mask, buf, r, pushI>>
    /\ UNCHANGED <<pushSrc, pushCount, pushN, pushWi, pushRi, popFrame,
                   nextSeq, popped, trace, popSteps>>
    /\ UNCHANGED other

\* The caller has the return value (pushN); the call frame is gone.
PushReturn(log) ==
    /\ pushPc = "ret"
    /\ trace' = IF log
                  THEN Append(trace, [op |-> "push", n |-> pushCount,
                                      ret |-> pushN, data |-> pushSrc])
                  ELSE trace
    /\ pushPc' = "idle"
    /\ pushSrc' = <<>> /\ pushCount' = 0 /\ pushN' = 0
    /\ pushWi' = 0 /\ pushRi' = 0 /\ pushI' = 0
    /\ pushSteps' = 0
    /\ UNCHANGED <<fifo, popFrame, nextSeq, accepted, popped, popSteps>>
    /\ UNCHANGED other

\* ------------------------------------------------------------- pop
\* The playback context calls pop(dst, n): dst has n slots, none written.
PopCall(n) ==
    /\ popPc = "idle"
    /\ Len(popped) <= MaxSeq
    /\ popPc' = "loadW"
    /\ popDst' = [k \in 1..n |-> Unwritten]
    /\ popN' = n
    /\ popSteps' = 0
    /\ UNCHANGED <<fifo, pushFrame, popWi, popRi, popGot, popI, nextSeq,
                   accepted, popped, trace, pushSteps>>
    /\ UNCHANGED other

\* uint32_t wi = w.load(std::memory_order_acquire);
PopLoadW ==
    /\ popPc = "loadW"
    /\ popWi' = w
    /\ popPc' = "loadR"
    /\ popSteps' = popSteps + 1
    /\ UNCHANGED <<fifo, pushFrame, popDst, popN, popRi, popGot, popI, nextSeq,
                   accepted, popped, trace, pushSteps>>
    /\ UNCHANGED other

\* uint32_t ri = r.load(std::memory_order_relaxed);
PopLoadR ==
    /\ popPc = "loadR"
    /\ popRi' = r
    /\ popPc' = "min"
    /\ popSteps' = popSteps + 1
    /\ UNCHANGED <<fifo, pushFrame, popDst, popN, popWi, popGot, popI, nextSeq,
                   accepted, popped, trace, pushSteps>>
    /\ UNCHANGED other

\* avail = (wi - ri) & mask; got = (n <= avail) ? n : avail;
PopMin ==
    /\ popPc = "min"
    /\ popGot' = Got(popN, Avail(popWi, popRi, mask))
    /\ popI' = 0
    /\ popPc' = "copy"
    /\ popSteps' = popSteps + 1
    /\ UNCHANGED <<fifo, pushFrame, popDst, popN, popWi, popRi, nextSeq,
                   accepted, popped, trace, pushSteps>>
    /\ UNCHANGED other

\* for (i = 0; i < got; ++i) dst[i] = buf[(ri + i) & mask];
\* and, when the loop ends, r.store((ri + got) & mask, release);
PopLoop ==
    /\ popPc = "copy"
    /\ popSteps' = popSteps + 1
    /\ IF popI < popGot
         THEN /\ popDst' = [popDst EXCEPT ![popI + 1] = buf[Slot(popRi, popI, mask)]]
              /\ popI' = popI + 1
              /\ UNCHANGED <<r, popPc, popped>>
         ELSE /\ r' = NewR(popRi, popGot, popN, mask)
              /\ popped' = popped \o SubSeq(popDst, 1, popGot)
              /\ popI' = popGot
              /\ popPc' = "pad"
              /\ UNCHANGED popDst
    /\ UNCHANGED <<mask, buf, w, pushFrame, popN, popWi, popRi, popGot, nextSeq,
                   accepted, trace, pushSteps>>
    /\ UNCHANGED other

\* if (got < n) std::memset(dst + got, 0, (n - got) * sizeof(float));
\* return got;
PopPad ==
    /\ popPc = "pad"
    /\ popSteps' = popSteps + 1
    /\ IF popI < PadEnd(popGot, popN)
         THEN /\ popDst' = [popDst EXCEPT ![popI + 1] = Silence]
              /\ popI' = popI + 1
              /\ UNCHANGED popPc
         ELSE /\ popPc' = "ret"
              /\ UNCHANGED <<popDst, popI>>
    /\ UNCHANGED <<fifo, pushFrame, popN, popWi, popRi, popGot, nextSeq,
                   accepted, popped, trace, pushSteps>>
    /\ UNCHANGED other

\* The caller has dst and the return value (popGot); the call frame is gone.
PopReturn(log) ==
    /\ popPc = "ret"
    /\ trace' = IF log
                  THEN Append(trace, [op |-> "pop", n |-> popN,
                                      ret |-> popGot, data |-> popDst])
                  ELSE trace
    /\ popPc' = "idle"
    /\ popDst' = <<>> /\ popN' = 0
    /\ popWi' = 0 /\ popRi' = 0 /\ popGot' = 0 /\ popI' = 0
    /\ popSteps' = 0
    /\ UNCHANGED <<fifo, pushFrame, nextSeq, accepted, popped, pushSteps>>
    /\ UNCHANGED other

\* ------------------------------------------------------------- contexts
\* captureThread / InputCallback: one push per captured batch.
Producer ==
    /\ \/ \E n \in PushCounts : PushCall(n)
       \/ PushLoadW
       \/ PushLoadR
       \/ PushClamp
       \/ PushLoop
       \/ PushReturn(FALSE)
    /\ UNCHANGED contexts

\* playbackThread / RenderCallback: one pop per requested batch.
Consumer ==
    /\ \/ \E n \in PopCounts : PopCall(n)
       \/ PopLoadW
       \/ PopLoadR
       \/ PopMin
       \/ PopLoop
       \/ PopPad
       \/ PopReturn(FALSE)
    /\ UNCHANGED contexts

\* The two contexts run concurrently, interleaved at every load, slot copy
\* and store.
Next == Producer \/ Consumer

Spec == Init /\ [][Next]_vars

\* Both contexts are threads or callbacks the platform keeps scheduling.
FairSpec == Spec /\ WF_vars(Producer) /\ WF_vars(Consumer)

\* Single-threaded discipline: a test script of at most MaxCalls calls, each
\* run to completion before the next begins, every call and result logged.
SeqProducer ==
    /\ popPc = "idle"
    /\ \/ \E n \in TestPushCounts : Len(trace) < MaxCalls /\ PushCall(n)
       \/ PushLoadW
       \/ PushLoadR
       \/ PushClamp
       \/ PushLoop
       \/ PushReturn(TRUE)
    /\ UNCHANGED contexts

SeqConsumer ==
    /\ pushPc = "idle"
    /\ \/ \E n \in TestPopCounts : Len(trace) < MaxCalls /\ PopCall(n)
       \/ PopLoadW
       \/ PopLoadR
       \/ PopMin
       \/ PopLoop
       \/ PopPad
       \/ PopReturn(TRUE)
    /\ UNCHANGED contexts

SeqNext == SeqProducer \/ SeqConsumer

SeqSpec == Init /\ [][SeqNext]_vars

\* ------------------------------------------------------------- claims
Capacity == mask + 1

\* Frames accepted by push and not yet returned by pop.
Unread == Len(accepted) - Len(popped)

\* push has just been called with a batch that holds the frame tagged t,
\* and the ring has room for the whole batch.
PushedWithRoom(t) ==
    /\ pushPc = "loadW"
    /\ pushCount >= 1
    /\ t \in Range(pushSrc)
    /\ pushCount <= Capacity - Unread

\* C1: whenever the capture context pushes a batch of n >= 1 frames into a
\* ring with at least n free slots, and the playback context keeps calling
\* pop for at least one frame, every frame of the batch is eventually
\* returned by pop.
C1_LoopbackDelivery ==
    ([]<>(popPc = "ret" /\ popN >= 1)) =>
        \A t \in 1..MaxSeq : PushedWithRoom(t) ~> (t \in Range(popped))

\* The non-padding frames pop has handed or is handing to its caller.
Returned ==
    IF popPc = "copy" THEN popped \o SubSeq(popDst, 1, popI) ELSE popped

\* C2: with one producer in push and one consumer in pop, interleaved at
\* every index load, slot copy and index store, the non-padding frames
\* returned by pop form a prefix, in order, of the frames accepted by push.
C2_FifoOrder == IsPrefix(Returned, accepted)

\* A pop of at least one frame has completed while a push of at least one
\* frame was between its index loads and its index store.
C2_Witness ==
    /\ popPc = "ret" /\ popN >= 1
    /\ pushPc \in {"clamp", "copy"} /\ pushCount >= 1

\* C3: at every point the frames returned by pop number the frames accepted
\* by push minus the frames the ring holds unread.
C3_FrameConservation == Len(popped) = Len(accepted) - Avail(w, r, mask)

\* Both a push and a pop of at least one frame have run to their return.
C3_Witness ==
    /\ pushPc = "ret" /\ pushCount >= 1
    /\ popPc = "ret" /\ popN >= 1
    /\ Capacity > 1

\* C4: on a fresh buffer of capacity 8, pushing 5 distinct frames and then
\* popping 5 returns those 5 frames in order; both calls return 5.
C4_RoundTrip ==
    ( /\ Capacity = 8
      /\ Len(trace) >= 2
      /\ trace[1].op = "push" /\ trace[1].n = 5
      /\ trace[2].op = "pop" /\ trace[2].n = 5 )
    => /\ trace[1].ret = 5
       /\ trace[2].ret = 5
       /\ trace[2].data = trace[1].data

\* C5: on a fresh buffer of capacity 4, push of 3 returns 3, a second push
\* of 3 returns 1, the buffer then holds 4 unread frames and a further push
\* returns 0.
C5_OverflowClipping ==
    ( /\ Capacity = 4
      /\ Len(trace) = 3
      /\ \A k \in 1..3 : trace[k].op = "push"
      /\ trace[1].n = 3 /\ trace[2].n = 3 /\ trace[3].n >= 1 )
    => /\ trace[1].ret = 3
       /\ trace[2].ret = 1
       /\ trace[3].ret = 0
       /\ Unread = 4

\* C6: with 4 frames available (pushed into a fresh ring of capacity >= 4),
\* pop(dst, 10) returns 4 and dst is those 4 frames followed by 6 zeros.
C6_UnderrunPadding ==
    ( /\ Capacity >= 4
      /\ Len(trace) >= 2
      /\ trace[1].op = "push" /\ trace[1].n = 4
      /\ trace[2].op = "pop" /\ trace[2].n = 10 )
    => /\ trace[2].ret = 4
       /\ trace[2].data = trace[1].data \o [k \in 1..6 |-> Silence]

\* C7: when pop(dst, n) returns, all n slots of dst are written: the first
\* actuallyRead with frames that were buffered, every other with zero.
C7_FullLengthBuffer ==
    popPc = "ret" =>
        /\ Len(popDst) = popN
        /\ \A k \in 1..popN :
              IF k <= popGot THEN popDst[k] \in Range(accepted)
                             ELSE popDst[k] = Silence

\* A pop of at least one frame has returned.
C7_Witness == popPc = "ret" /\ popN >= 1

\* The frames the ring holds, read from the read index on.
RingContents == [k \in 1..Unread |-> buf[Slot(r, k - 1, mask)]]

\* C8: with a frames unread in a ring of capacity N, push(src, n) returns
\* min(n, N - a); the frames it accepts are the first min(n, N - a) of src,
\* appended after the frames already buffered, which are left unchanged.
C8_DropNewestPush ==
    pushPc = "ret" =>
        /\ pushN = Min(pushCount, Capacity - (Unread - pushN))
        /\ SubSeq(accepted, Len(accepted) - pushN + 1, Len(accepted))
             = SubSeq(pushSrc, 1, pushN)
        /\ RingContents = SubSeq(accepted, Len(popped) + 1, Len(accepted))

\* C9: writeIdx - readIdx, by unsigned 32-bit subtraction, lies in 0..N and
\* is the number of frames available to read.
C9_IndexInvariant ==
    /\ Sub32(w, r) \in 0..Capacity
    /\ Sub32(w, r) = Unread

\* A push of at least one frame has stored its index while a pop was
\* between its own index store and its return.
C9_Witness ==
    /\ pushPc = "ret" /\ pushCount >= 1
    /\ popPc = "pad" /\ popN >= 1

\* C10: a call of push or pop with count n always has a next step of its
\* own to take, whatever the other context does, and takes at most n plus a
\* constant number of steps.
C10_WaitFree ==
    /\ pushPc # "idle" => (ENABLED Producer) /\ pushSteps <= pushCount + 4
    /\ popPc # "idle" => (ENABLED Consumer) /\ popSteps <= popN + 5

\* A pop of at least one frame ran to its return while a push of at least
\* one frame stayed halted between its loads and its copy loop.
C10_Witness ==
    /\ popPc = "ret" /\ popN >= 1 /\ popSteps = popN + 5
    /\ pushPc = "clamp" /\ pushCount >= 1

\* gFifo.push(temp.data(), inNumberFrames); the value push returns is
\* discarded and the program keeps no count of short pushes.
OverrunCount == 0

\* gFifo.pop(out, inNumberFrames); the value pop returns is discarded and
\* the program keeps no count of short pops.
UnderrunCount == 0

\* C17: each call of the capture entry point increments overrunCount by one
\* exactly when its push accepted fewer frames than it was given, and
\* leaves it unchanged otherwise.
C17_OverrunAccounting ==
    [][(pushPc = "ret" /\ pushPc' = "idle") =>
          OverrunCount' = OverrunCount + (IF pushN < pushCount THEN 1 ELSE 0)]_vars

\* C18: each call of the playback entry point increments underrunCount by
\* one exactly when its pop returned fewer frames than were asked for, and
\* leaves it unchanged otherwise.
C18_UnderrunAccounting ==
    [][(popPc = "ret" /\ popPc' = "idle") =>
          UnderrunCount' = UnderrunCount + (IF popGot < popN THEN 1 ELSE 0)]_vars

\* C19: with a frames unread, pop(dst, n) returns min(n, a), copies the
\* min(n, a) oldest unread frames in order into dst and leaves
\* a - min(n, a) frames unread.
C19_PopCount ==
    popPc = "ret" =>
        /\ popGot = Min(popN, Unread + popGot)
        /\ SubSeq(popDst, 1, popGot)
             = SubSeq(accepted, Len(popped) - popGot + 1, Len(popped))
        /\ Avail(w, r, mask) = Unread

\* A pop of at least one frame has returned after a push of at least one
\* frame had returned.
C19_Witness ==
    /\ popPc = "ret" /\ popN >= 1
    /\ Len(trace) >= 1 /\ trace[1].op = "push" /\ trace[1].n >= 1

\* The slots that hold a committed frame not yet consumed.
Committed == {Slot(r, k, mask) : k \in 0..(Unread - 1)}

\* C20: push stores the write index only after all of its slot writes, pop
\* stores the read index only after all of its slot reads, push never
\* writes a slot that holds a committed, unconsumed frame, and pop never
\* reads a slot outside the committed range.
C20_SlotOwnership ==
    [][/\ (pushPc = "copy" /\ pushPc' = "ret") => pushI = pushN
       /\ (popPc = "copy" /\ popPc' = "pad") => popI = popGot
       /\ (pushPc = "copy" /\ pushI' = pushI + 1) =>
              Slot(pushWi, pushI, mask) \notin Committed
       /\ (popPc = "copy" /\ popI' = popI + 1) =>
              Slot(popRi, popI, mask) \in Committed]_vars

\* A push of at least one frame has stored the write index while a pop of
\* at least one frame was in its copy loop.
C20_Witness ==
    /\ pushPc = "ret" /\ pushCount >= 1
    /\ popPc = "copy" /\ popN >= 1

\* ------------------------------------------------------ construction
\* FloatFIFO(uint32_t framesPow2), one step per statement, at the full width
\* of uint32_t.  The sizes asked for: the small ones the ring is explored
\* with, the two the programs use (1 << 15, 1 << 16), and the ones around the
\* top bit.
CtorSizes ==
    {U32(0, s) : s \in Sizes}
        \cup {U32(0, 32768), U32(1, 0), U32(1, 1), U32(32767, 65535),
              U32(32768, 0), U32(32768, 1), U32(65535, 65535)}

\* The state at the entry of the constructor: uint32_t sz = 1 is done, the
\* ring has no storage yet and nobody can call push or pop.
CtorInit ==
    /\ \E sz \in CtorSizes : ctorArg = sz
    /\ ctorPc = "grow"
    /\ ctorP = U32(0, 1)
    /\ ctorLen = U32(0, 0)
    /\ ctorMask = U32(0, 0)
    /\ mask = 0
    /\ buf = [s \in 0..0 |-> Silence]
    /\ w = 0
    /\ r = 0
    /\ pushPc = "idle" /\ pushSrc = <<>> /\ pushCount = 0 /\ pushN = 0
    /\ pushWi = 0 /\ pushRi = 0 /\ pushI = 0
    /\ popPc = "idle" /\ popDst = <<>> /\ popN = 0
    /\ popWi = 0 /\ popRi = 0 /\ popGot = 0 /\ popI = 0
    /\ nextSeq = 0
    /\ accepted = <<>>
    /\ popped = <<>>
    /\ trace = <<>>
    /\ pushSteps = 0
    /\ popSteps = 0
    /\ NoProgram

notCtor == <<fifo, pushFrame, popFrame, nextSeq, accepted, popped, trace,
             pushSteps, popSteps>>

\* while (sz < framesPow2) sz <<= 1;
CtorGrow ==
    /\ ctorPc = "grow"
    /\ IF GrowMore(ctorP, ctorArg)
       THEN ctorP' = Shl32(ctorP) /\ ctorPc' = ctorPc
       ELSE ctorP' = ctorP /\ ctorPc' = "resize"
    /\ UNCHANGED <<ctorArg, ctorLen, ctorMask, notCtor>>
    /\ UNCHANGED <<control, session, contexts>>

\* buf.resize(sz);
CtorResize ==
    /\ ctorPc = "resize"
    /\ ctorLen' = ctorP
    /\ ctorPc' = "mask"
    /\ UNCHANGED <<ctorArg, ctorP, ctorMask, notCtor>>
    /\ UNCHANGED <<control, session, contexts>>

\* mask = sz - 1;
CtorSetMask ==
    /\ ctorPc = "mask"
    /\ ctorMask' = Dec32(ctorP)
    /\ ctorPc' = "ret"
    /\ UNCHANGED <<ctorArg, ctorP, ctorLen, notCtor>>
    /\ UNCHANGED <<control, session, contexts>>

\* The closing brace: the argument and the local die, the fields stay.
CtorReturn ==
    /\ ctorPc = "ret"
    /\ ctorPc' = "done"
    /\ ctorArg' = U32(0, 0)
    /\ ctorP' = U32(0, 0)
    /\ UNCHANGED <<ctorLen, ctorMask, notCtor>>
    /\ UNCHANGED <<control, session, contexts>>

CtorNext == CtorGrow \/ CtorResize \/ CtorSetMask \/ CtorReturn

CtorSpec == CtorInit /\ [][CtorNext]_vars

\* The powers of two a uint32_t can hold.
Pow2Halves == {1, 2, 4, 8, 16, 32, 64, 128, 256, 512, 1024, 2048, 4096, 8192,
               16384, 32768}

Pow2s32 == {U32(0, q) : q \in Pow2Halves} \cup {U32(q, 0) : q \in Pow2Halves}

\* The loop is on its way to its end: the size still below the one asked for
\* grows strictly with the shift.
CtorProgress ==
    (ctorPc = "grow" /\ Lt32(ctorP, ctorArg)) => Lt32(ctorP, Shl32(ctorP))

\* What the constructor leaves at its closing brace: the smallest power of
\* two not below the size asked for, that many frames of storage, and the
\* mask one below it.
CtorResult ==
    ctorPc = "ret" =>
        /\ ctorP \in Pow2s32
        /\ ~Lt32(ctorP, ctorArg)
        /\ \A q \in Pow2s32 : ~Lt32(q, ctorArg) => ~Lt32(q, ctorP)
        /\ ctorLen = ctorP
        /\ Inc32(ctorMask) = ctorP
        /\ (ctorArg[1] = 0 /\ ctorArg[2] \in Sizes) =>
               ctorP = U32(0, FifoCapacity(ctorArg[2]))

\* C11 (as stated): for every size s a uint32_t holds, the constructor
\* terminates with the capacity N the smallest power of two >= s, N >= 1,
\* storage of N frames and mask == N - 1.
C11_CapacitySelection == CtorProgress /\ CtorResult

\* C11 (amended): the same for every size s <= 2^31.  Above 2^31 no uint32_t
\* power of two is >= s, the shift of 2^31 gives 0 and the loop never ends.
C11_CapacitySelectionUpTo2_31 ==
    ~Lt32(U32(32768, 0), ctorArg) => (CtorProgress /\ CtorResult)

\* The constructor has built the largest ring it can: 2^31 frames asked for
\* and got.
C11_Witness ==
    /\ ctorPc = "ret"
    /\ ctorArg = U32(32768, 0)
    /\ ctorLen = U32(32768, 0)
    /\ ctorMask = U32(32767, 65535)

\* The size asked for is above 2^31 and the shift has just lost the top bit.
C11_TopBitLost ==
    /\ ctorPc = "grow"
    /\ Lt32(U32(32768, 0), ctorArg)
    /\ ctorP = U32(0, 0)

\* ------------------------------------------------------------ programs
\* The four programs around the ring: the ALSA loopback (part_000), the
\* macOS VoiceProcessingIO loopback (part_001), the iOS one (Start/Stop
\* called by the application) and the Oboe one (start/stop called over JNI).
Programs == {"alsa", "vpio", "ios", "android"}

\* static const snd_pcm_uframes_t BUFFER_FRAMES = 128, scaled to the model.
BUFFER_FRAMES == MaxPush

\* The frame counts a device hands to one callback or one read.
CallbackFrames == {1, BUFFER_FRAMES}

\* static const UInt32 kFramesPerBuffer = 128, scaled to the model: the
\* length of float buf[kFramesPerBuffer] in the iOS InputCallback.
kFramesPerBuffer == MaxPush

\* The inNumberFrames an audio unit may hand to InputCallback: the platform
\* chooses it, and it may exceed the 128 the program hopes for.
UnitFrames == CallbackFrames \cup {kFramesPerBuffer + 1}

\* The process is running: main has not returned 1 and nothing has crashed.
Alive == mainPc \notin {"exit1", "crashed"} /\ capPc # "crashed"

\* gAudioUnit names a unit that has not been disposed of.
HandleValid == gAudioUnit = "unit" /\ unit \in {"created", "initialized", "running"}

\* stop() has returned once, or twice and more in a row.
AfterStop(c) == IF c \in {"stop", "stop2"} THEN "stop2" ELSE "stop"

ProgInit ==
    /\ mask = FifoCapacity(MaxSize) - 1
    /\ buf = [s \in 0..mask |-> Silence]
    /\ w = 0
    /\ r = 0
    /\ pushPc = "idle" /\ pushSrc = <<>> /\ pushCount = 0 /\ pushN = 0
    /\ pushWi = 0 /\ pushRi = 0 /\ pushI = 0
    /\ popPc = "idle" /\ popDst = <<>> /\ popN = 0
    /\ popWi = 0 /\ popRi = 0 /\ popGot = 0 /\ popI = 0
    /\ nextSeq = 0
    /\ accepted = <<>>
    /\ popped = <<>>
    /\ trace = <<>>
    /\ pushSteps = 0
    /\ popSteps = 0
    /\ ctorPc = "done"
    /\ ctorArg = U32(0, 0)
    /\ ctorP = U32(0, 0)
    /\ ctorLen = U32(0, mask + 1)
    /\ ctorMask = U32(0, mask)
    /\ \E p \in Programs : prog = p
    /\ mainPc = (CASE prog = "alsa" -> "openCapture"
                   [] prog = "vpio" -> "create"
                   [] OTHER -> "idle")
    /\ lastCall = "none"
    /\ startFailed = FALSE
    /\ reported = "nothing"
    /\ gAudioUnit = "null"
    /\ unit = "none"
    /\ inState = (CASE prog = "alsa" -> "ok"
                    [] prog = "android" -> "null"
                    [] OTHER -> "none")
    /\ outState = inState
    /\ gRunning = TRUE
    /\ capPc = "off" /\ playPc = "off" /\ capStatus = "none"
    /\ inNumberFrames = 0

\* ---- part_000: main
\* if (snd_pcm_open(&captureHandle, ...) < 0) { ...; return 1; }
AlsaOpenCapture(ok) ==
    /\ prog = "alsa" /\ mainPc = "openCapture"
    /\ IF ok
       THEN mainPc' = "openPlayback" /\ UNCHANGED <<startFailed, reported>>
       ELSE mainPc' = "exit1" /\ startFailed' = TRUE /\ reported' = "error"
    /\ UNCHANGED <<prog, lastCall, session, contexts, ctor, notCtor>>

\* if (snd_pcm_open(&playbackHandle, ...) < 0) { ...; return 1; }
AlsaOpenPlayback(ok) ==
    /\ prog = "alsa" /\ mainPc = "openPlayback"
    /\ IF ok
       THEN mainPc' = "configure" /\ UNCHANGED <<startFailed, reported>>
       ELSE mainPc' = "exit1" /\ startFailed' = TRUE /\ reported' = "error"
    /\ UNCHANGED <<prog, lastCall, session, contexts, ctor, notCtor>>

\* for (auto handle : {captureHandle, playbackHandle}) { snd_pcm_hw_params_*;
\* snd_pcm_prepare(handle); }: no return value is looked at.  A device whose
\* parameters were refused is left unconfigured.
AlsaConfigure(capOk, playOk) ==
    /\ prog = "alsa" /\ mainPc = "configure"
    /\ mainPc' = "spawn"
    /\ startFailed' = (~capOk \/ ~playOk)
    /\ inState' = IF capOk THEN inState ELSE "unconfigured"
    /\ outState' = IF playOk THEN outState ELSE "unconfigured"
    /\ UNCHANGED <<prog, lastCall, reported, gAudioUnit, unit, gRunning,
                   contexts, ctor, notCtor>>

\* std::thread tCap(captureThread, ...); std::thread tPlay(playbackThread, ...);
\* then while (true) sleep_for(1 s), which main never leaves.
AlsaSpawn ==
    /\ prog = "alsa" /\ mainPc = "spawn"
    /\ mainPc' = "sleep"
    /\ capPc' = "loop"
    /\ playPc' = "loop"
    /\ UNCHANGED <<prog, lastCall, startFailed, reported, session, capStatus,
                   inNumberFrames, ctor, notCtor>>

\* ---- part_000: captureThread
\* while (gRunning) { frames = snd_pcm_readi(...); if (frames < 0) {...}
\* gFifo.push(buf.data(), frames): the read either gives frames, and push is
\* entered, or fails.
AlsaReadi(ok) ==
    /\ prog = "alsa" /\ Alive /\ capPc = "loop"
    /\ IF gRunning
       THEN \/ /\ ok /\ inState = "ok"
               /\ \E n \in CallbackFrames : PushCall(n)
               /\ capPc' = "push"
            \/ /\ ~ok
               /\ capPc' = "prepare"
               /\ UNCHANGED <<notCtor, other>>
       ELSE capPc' = "exit" /\ UNCHANGED <<notCtor, other>>
    /\ UNCHANGED <<playPc, capStatus, inNumberFrames>>

\* snd_pcm_prepare(captureHandle); continue;
AlsaCapturePrepare ==
    /\ prog = "alsa" /\ Alive /\ capPc = "prepare"
    /\ capPc' = "loop"
    /\ UNCHANGED <<playPc, capStatus, inNumberFrames, notCtor, other>>

\* ---- part_000: playbackThread
\* while (gRunning) { gFifo.pop(buf.data(), BUFFER_FRAMES);
AlsaPlaybackPop ==
    /\ prog = "alsa" /\ Alive /\ playPc = "loop"
    /\ IF gRunning
       THEN PopCall(BUFFER_FRAMES) /\ playPc' = "pop"
       ELSE playPc' = "exit" /\ UNCHANGED <<notCtor, other>>
    /\ UNCHANGED <<capPc, capStatus, inNumberFrames>>

\* frames = snd_pcm_writei(...); if (frames < 0) {
AlsaWritei(ok) ==
    /\ prog = "alsa" /\ Alive /\ playPc = "write"
    /\ \/ ok /\ outState = "ok" /\ playPc' = "loop"
       \/ ~ok /\ playPc' = "prepare"
    /\ UNCHANGED <<capPc, capStatus, inNumberFrames, notCtor, other>>

\* snd_pcm_prepare(playbackHandle); continue;
AlsaPlaybackPrepare ==
    /\ prog = "alsa" /\ Alive /\ playPc = "prepare"
    /\ playPc' = "loop"
    /\ UNCHANGED <<capPc, capStatus, inNumberFrames, notCtor, other>>

\* A device goes away for good while the loopback runs (unplugged): every
\* later read or write on it fails, and so does snd_pcm_prepare.
DeviceDies(capture) ==
    /\ prog = "alsa" /\ mainPc = "sleep"
    /\ IF capture
       THEN inState = "ok" /\ inState' = "dead" /\ UNCHANGED outState
       ELSE outState = "ok" /\ outState' = "dead" /\ UNCHANGED inState
    /\ UNCHANGED <<control, gAudioUnit, unit, gRunning, contexts, ctor, notCtor>>

\* ---- part_001: main
\* comp = AudioComponentFindNext(...); if (!comp) return 1;
\* if (AudioComponentInstanceNew(comp, &gAU) != noErr) return 1;
VpioCreate(ok) ==
    /\ prog = "vpio" /\ mainPc = "create"
    /\ IF ok
       THEN /\ mainPc' = "configure"
            /\ gAudioUnit' = "unit" /\ unit' = "created"
            /\ UNCHANGED <<startFailed, reported>>
       ELSE /\ mainPc' = "exit1"
            /\ startFailed' = TRUE /\ reported' = "error"
            /\ UNCHANGED <<gAudioUnit, unit>>
    /\ UNCHANGED <<prog, lastCall, inState, outState, gRunning, contexts,
                   ctor, notCtor>>

\* AudioUnitSetProperty(...) six times, AudioUnitInitialize(gAU),
\* AudioOutputUnitStart(gAU), CFRunLoopRun(): no status is looked at.
VpioConfigureAndStart(cfgOk, runOk) ==
    /\ prog = "vpio" /\ mainPc = "configure"
    /\ mainPc' = "runloop"
    /\ startFailed' = (~cfgOk \/ ~runOk)
    /\ unit' = IF runOk THEN "running" ELSE unit
    /\ UNCHANGED <<prog, lastCall, reported, gAudioUnit, inState, outState,
                   gRunning, contexts, ctor, notCtor>>

\* ---- ios_voice_loopback.mm: StartVoiceLoopback
\* The application starts a session only when the last call was not a start.
\* [session ...]; comp = AudioComponentFindNext(...);
\* AudioComponentInstanceNew(comp, &gAudioUnit);
IosStartCreate(ok) ==
    /\ prog = "ios" /\ Alive /\ mainPc = "idle" /\ lastCall # "start"
    /\ mainPc' = "startConfigure"
    /\ startFailed' = ~ok
    /\ reported' = "nothing"
    /\ IF ok
       THEN gAudioUnit' = "unit" /\ unit' = "created"
       ELSE UNCHANGED <<gAudioUnit, unit>>
    /\ UNCHANGED <<prog, lastCall, inState, outState, gRunning, contexts,
                   ctor, notCtor>>

\* AudioUnitSetProperty(gAudioUnit, ...): EnableIO, StreamFormat, callbacks.
\* They fail on a null unit and may fail on a real one.
IosStartConfigure(ok) ==
    /\ prog = "ios" /\ mainPc = "startConfigure"
    /\ ok => gAudioUnit = "unit"
    /\ mainPc' = "startRun"
    /\ startFailed' = (startFailed \/ ~ok)
    /\ UNCHANGED <<prog, lastCall, reported, session, contexts, ctor, notCtor>>

\* AudioUnitInitialize(gAudioUnit); AudioOutputUnitStart(gAudioUnit); return.
IosStartRun(ok) ==
    /\ prog = "ios" /\ mainPc = "startRun"
    /\ ok => gAudioUnit = "unit"
    /\ mainPc' = "idle"
    /\ lastCall' = "start"
    /\ startFailed' = (startFailed \/ ~ok)
    /\ unit' = IF ok THEN "running" ELSE unit
    /\ UNCHANGED <<prog, reported, gAudioUnit, inState, outState, gRunning,
                   contexts, ctor, notCtor>>

\* ---- ios_voice_loopback.mm: StopVoiceLoopback
\* if (gAudioUnit) { ... } and, on a null handle, the return.
IosStopCheck ==
    /\ prog = "ios" /\ Alive /\ mainPc = "idle"
    /\ IF gAudioUnit = "unit"
       THEN mainPc' = "stopUnit" /\ UNCHANGED lastCall
       ELSE mainPc' = mainPc /\ lastCall' = AfterStop(lastCall)
    /\ UNCHANGED <<prog, startFailed, reported, session, contexts, ctor, notCtor>>

\* AudioOutputUnitStop(gAudioUnit): no callback begins after it; nothing in
\* the program makes it wait for one that has begun.
IosStopUnit ==
    /\ prog = "ios" /\ mainPc = "stopUnit"
    /\ mainPc' = "stopUninit"
    /\ unit' = IF unit = "running" THEN "initialized" ELSE unit
    /\ UNCHANGED <<prog, lastCall, startFailed, reported, gAudioUnit, inState,
                   outState, gRunning, contexts, ctor, notCtor>>

\* AudioUnitUninitialize(gAudioUnit);
IosUninitialize ==
    /\ prog = "ios" /\ mainPc = "stopUninit"
    /\ mainPc' = "stopDispose"
    /\ unit' = IF unit = "initialized" THEN "created" ELSE unit
    /\ UNCHANGED <<prog, lastCall, startFailed, reported, gAudioUnit, inState,
                   outState, gRunning, contexts, ctor, notCtor>>

\* AudioComponentInstanceDispose(gAudioUnit);
IosDispose ==
    /\ prog = "ios" /\ mainPc = "stopDispose"
    /\ mainPc' = "stopClear"
    /\ unit' = "disposed"
    /\ UNCHANGED <<prog, lastCall, startFailed, reported, gAudioUnit, inState,
                   outState, gRunning, contexts, ctor, notCtor>>

IosStopKeepHandle ==
    /\ prog = "ios" /\ mainPc = "stopClear"
    /\ mainPc' = "idle"
    /\ lastCall' = AfterStop(lastCall)
    /\ UNCHANGED <<prog, startFailed, reported, session, contexts, ctor, notCtor>>

\* gAudioUnit = nullptr; and the return.
IosStopClear ==
    /\ prog = "ios" /\ mainPc = "stopClear"
    /\ mainPc' = "idle"
    /\ lastCall' = AfterStop(lastCall)
    /\ gAudioUnit' = "null"
    /\ UNCHANGED <<prog, startFailed, reported, unit, inState, outState,
                   gRunning, contexts, ctor, notCtor>>

\* ---- android_voice_loopback.cpp: FullDuplex::start
\* inState and outState hold inputStream and outputStream: "null" for an
\* empty shared_ptr, else the state of the stream it holds.
\* inBuilder...; outBuilder...; inBuilder.openStream(inputStream);
AndroidOpenInput(ok) ==
    /\ prog = "android" /\ Alive /\ mainPc = "idle" /\ lastCall # "start"
    /\ mainPc' = "openOutput"
    /\ startFailed' = ~ok
    /\ reported' = "nothing"
    /\ inState' = IF ok THEN "open" ELSE inState
    /\ UNCHANGED <<prog, lastCall, gAudioUnit, unit, outState, gRunning,
                   contexts, ctor, notCtor>>

\* outBuilder.openStream(outputStream);
AndroidOpenOutput(ok) ==
    /\ prog = "android" /\ mainPc = "openOutput"
    /\ mainPc' = "startInput"
    /\ startFailed' = (startFailed \/ ~ok)
    /\ outState' = IF ok THEN "open" ELSE outState
    /\ UNCHANGED <<prog, lastCall, reported, gAudioUnit, unit, inState,
                   gRunning, contexts, ctor, notCtor>>

\* inputStream->requestStart(); through an empty shared_ptr the call is
\* undefined: the process crashes or the call does nothing.
AndroidStartInput(crash) ==
    /\ prog = "android" /\ mainPc = "startInput"
    /\ IF inState = "null"
       THEN /\ mainPc' = IF crash THEN "crashed" ELSE "startOutput"
            /\ UNCHANGED inState
       ELSE /\ ~crash
            /\ mainPc' = "startOutput"
            /\ inState' = "started"
    /\ UNCHANGED <<prog, lastCall, startFailed, reported, gAudioUnit, unit,
                   outState, gRunning, contexts, ctor, notCtor>>

\* outputStream->requestStart(); and the return.
AndroidStartOutput(crash) ==
    /\ prog = "android" /\ Alive /\ mainPc = "startOutput"
    /\ IF outState = "null"
       THEN /\ mainPc' = IF crash THEN "crashed" ELSE "idle"
            /\ lastCall' = IF crash THEN lastCall ELSE "start"
            /\ UNCHANGED outState
       ELSE /\ ~crash
            /\ mainPc' = "idle"
            /\ lastCall' = "start"
            /\ outState' = "started"
    /\ UNCHANGED <<prog, startFailed, reported, gAudioUnit, unit, inState,
                   gRunning, contexts, ctor, notCtor>>

\* ---- android_voice_loopback.cpp: FullDuplex::stop
\* if (inputStream) inputStream->requestStop();
AndroidStopInput ==
    /\ prog = "android" /\ Alive /\ mainPc = "idle"
    /\ mainPc' = "stopOutput"
    /\ inState' = IF inState = "started" THEN "stopped" ELSE inState
    /\ UNCHANGED <<prog, lastCall, startFailed, reported, gAudioUnit, unit,
                   outState, gRunning, contexts, ctor, notCtor>>

\* if (outputStream) outputStream->requestStop(); and the return.
AndroidStopOutput ==
    /\ prog = "android" /\ mainPc = "stopOutput"
    /\ mainPc' = "idle"
    /\ lastCall' = AfterStop(lastCall)
    /\ outState' = IF outState = "started" THEN "stopped" ELSE outState
    /\ UNCHANGED <<prog, startFailed, reported, gAudioUnit, unit, inState,
                   gRunning, contexts, ctor, notCtor>>

\* ---- callbacks
\* InputCallback of part_001 and of ios_voice_loopback.mm is entered by the
\* running unit with inNumberFrames frames to fetch.
AuInputCallback(n) ==
    /\ prog \in {"vpio", "ios"} /\ Alive
    /\ unit = "running" /\ capPc = "off"
    /\ nextSeq + n <= MaxSeq
    /\ capPc' = "render"
    /\ inNumberFrames' = n
    /\ capStatus' = "none"
    /\ UNCHANGED <<playPc, notCtor, other>>

\* s = AudioUnitRender(gAudioUnit, ..., inNumberFrames, &abl): with frames,
\* push is entered; with an error status the callback returns that status.
\* On a handle already disposed of the call is undefined and may crash; so
\* is, on iOS, a render of more frames than float buf[kFramesPerBuffer] holds
\* (abl.mBuffers[0].mDataByteSize = inNumberFrames * sizeof(float)).
AuRender(ok) ==
    /\ prog \in {"vpio", "ios"} /\ Alive /\ capPc = "render"
    /\ \/ /\ ok /\ HandleValid /\ unit = "running"
          /\ PushCall(inNumberFrames)
          /\ capPc' = "push"
          /\ UNCHANGED <<capStatus, inNumberFrames>>
       \/ /\ ~ok
          /\ capPc' = "off"
          /\ capStatus' = "error"
          /\ inNumberFrames' = 0
          /\ UNCHANGED <<notCtor, other>>
       \/ /\ ~ok
          /\ \/ gAudioUnit = "unit" /\ unit = "disposed"
             \/ /\ prog = "ios" /\ inNumberFrames > kFramesPerBuffer
                /\ HandleValid /\ unit = "running"
          /\ capPc' = "crashed"
          /\ UNCHANGED <<capStatus, inNumberFrames, notCtor, other>>
    /\ UNCHANGED playPc

\* onAudioReady(stream, audioData, numFrames) with stream == inputStream.get().
AndroidInputReady(n) ==
    /\ prog = "android" /\ Alive
    /\ inState = "started" /\ capPc = "off"
    /\ PushCall(n)
    /\ capPc' = "push"
    /\ UNCHANGED <<playPc, capStatus, inNumberFrames>>

\* The capture context inside gFifo.push.
CapturePush ==
    /\ Alive /\ capPc = "push"
    /\ PushLoadW \/ PushLoadR \/ PushClamp \/ PushLoop
    /\ UNCHANGED contexts

\* push returns: the thread loops, the callback returns noErr or Continue.
CapturePushReturn ==
    /\ Alive /\ capPc = "push"
    /\ PushReturn(FALSE)
    /\ capPc' = IF prog = "alsa" THEN "loop" ELSE "off"
    /\ capStatus' = IF prog \in {"vpio", "ios"} THEN "noErr" ELSE capStatus
    /\ inNumberFrames' = 0
    /\ UNCHANGED playPc

\* RenderCallback of part_001 and of ios_voice_loopback.mm:
\* gFifo.pop(out, inNumberFrames).
AuRenderCallback(n) ==
    /\ prog \in {"vpio", "ios"} /\ Alive
    /\ unit = "running" /\ playPc = "off"
    /\ PopCall(n)
    /\ playPc' = "pop"
    /\ UNCHANGED <<capPc, capStatus, inNumberFrames>>

\* onAudioReady(stream, audioData, numFrames) with stream == outputStream.get().
AndroidOutputReady(n) ==
    /\ prog = "android" /\ Alive
    /\ outState = "started" /\ playPc = "off"
    /\ PopCall(n)
    /\ playPc' = "pop"
    /\ UNCHANGED <<capPc, capStatus, inNumberFrames>>

\* The playback context inside gFifo.pop.
PlaybackPop ==
    /\ Alive /\ playPc = "pop"
    /\ PopLoadW \/ PopLoadR \/ PopMin \/ PopLoop \/ PopPad
    /\ UNCHANGED contexts

\* pop returns: the thread goes on to snd_pcm_writei, the callback returns.
PlaybackPopReturn ==
    /\ Alive /\ playPc = "pop"
    /\ PopReturn(FALSE)
    /\ playPc' = IF prog = "alsa" THEN "write" ELSE "off"
    /\ UNCHANGED <<capPc, capStatus, inNumberFrames>>

ProgControl ==
    \/ \E ok \in BOOLEAN : AlsaOpenCapture(ok)
    \/ \E ok \in BOOLEAN : AlsaOpenPlayback(ok)
    \/ \E capOk, playOk \in BOOLEAN : AlsaConfigure(capOk, playOk)
    \/ AlsaSpawn
    \/ \E ok \in BOOLEAN : VpioCreate(ok)
    \/ \E cfgOk, runOk \in BOOLEAN : VpioConfigureAndStart(cfgOk, runOk)
    \/ \E ok \in BOOLEAN : IosStartCreate(ok)
    \/ \E ok \in BOOLEAN : IosStartConfigure(ok)
    \/ \E ok \in BOOLEAN : IosStartRun(ok)
    \/ IosStopCheck
    \/ IosStopUnit
    \/ IosUninitialize
    \/ IosDispose
    \/ IosStopClear
    \/ \E ok \in BOOLEAN : AndroidOpenInput(ok)
    \/ \E ok \in BOOLEAN : AndroidOpenOutput(ok)
    \/ \E crash \in BOOLEAN : AndroidStartInput(crash)
    \/ \E crash \in BOOLEAN : AndroidStartOutput(crash)
    \/ AndroidStopInput
    \/ AndroidStopOutput

ProgCapture ==
    \/ \E ok \in BOOLEAN : AlsaReadi(ok)
    \/ AlsaCapturePrepare
    \/ \E n \in UnitFrames : AuInputCallback(n)
    \/ \E ok \in BOOLEAN : AuRender(ok)
    \/ \E n \in CallbackFrames : AndroidInputReady(n)
    \/ CapturePush
    \/ CapturePushReturn

ProgPlayback ==
    \/ AlsaPlaybackPop
    \/ \E ok \in BOOLEAN : AlsaWritei(ok)
    \/ AlsaPlaybackPrepare
    \/ \E n \in CallbackFrames : AuRenderCallback(n)
    \/ \E n \in CallbackFrames : AndroidOutputReady(n)
    \/ PlaybackPop
    \/ PlaybackPopReturn

ProgDevice == \E capture \in BOOLEAN : DeviceDies(capture)

ProgNext == ProgControl \/ ProgCapture \/ ProgPlayback \/ ProgDevice

ProgSpec == ProgInit /\ [][ProgNext]_vars

\* The capture and playback threads and callbacks are scheduled for ever.
FairProgSpec == ProgSpec /\ WF_vars(ProgCapture) /\ WF_vars(ProgPlayback)

\* -------------------------------------------------- lifecycle claims
\* The positions of the control thread inside stop().
StopPcs == {"stopUnit", "stopUninit", "stopDispose", "stopClear", "stopOutput"}

\* The session is stopped: no unit handle and no running unit (iOS), no
\* started stream (Oboe).
Stopped ==
    /\ prog = "ios" => (gAudioUnit = "null" /\ unit # "running")
    /\ prog = "android" => (inState # "started" /\ outState # "started")

\* A step of the control thread inside a stop() that follows a stop().
SecondStopStep ==
    /\ lastCall \in {"stop", "stop2"}
    /\ mainPc' # mainPc \/ lastCall' # lastCall
    /\ \/ mainPc \in StopPcs
       \/ mainPc' \in StopPcs
       \/ lastCall = "stop" /\ lastCall' = "stop2"

\* C12: stop() called twice in a row, from any lifecycle state, raises no
\* error; the session is Stopped after the first call, and the second call
\* changes nothing.
C12_IdempotentStop ==
    /\ []((prog \in {"ios", "android"} /\ lastCall \in {"stop", "stop2"}
             /\ mainPc = "idle") => (Stopped /\ reported # "error"))
    /\ [][SecondStopStep =>
            /\ UNCHANGED <<session, contexts, notCtor, startFailed, reported>>
            /\ mainPc' # "crashed"]_vars

\* A session that captured frames has been stopped twice in a row.
C12_Witness ==
    /\ prog \in {"ios", "android"}
    /\ lastCall = "stop2" /\ mainPc = "idle"
    /\ nextSeq >= 1

\* A capture or playback callback begins.
CallbackBegins ==
    \/ capPc = "off" /\ capPc' # "off"
    \/ playPc = "off" /\ playPc' # "off"

\* C13: with stop() running beside the callbacks, a callback in flight never
\* uses a released or null unit handle, and no callback begins once stop()
\* has returned.
C13_StopSafeAgainstCallbacks ==
    [][/\ (prog = "ios" /\ capPc = "render" /\ capPc' # "render") => HandleValid
       /\ (prog = "ios" /\ lastCall \in {"stop", "stop2"} /\ mainPc = "idle")
             => ~CallbackBegins]_vars

\* start (or main, up to the point where the loopback runs) has returned.
StartReturned ==
    \/ mainPc \in {"exit1", "sleep", "runloop"}
    \/ mainPc = "idle" /\ lastCall = "start"

\* C14: when opening a device or applying its format fails during start,
\* start reports an error to its caller and no capture or playback thread
\* or callback ever runs.
C14_ConfigurationFailure ==
    /\ []((startFailed /\ StartReturned) => reported = "error")
    /\ [][startFailed => ~CallbackBegins]_vars

\* Both ALSA devices are gone for good.
DeviceGone == prog = "alsa" /\ inState = "dead" /\ outState = "dead"

\* The session has failed: both threads have left their loops and neither is
\* inside push or pop.
SessionFailed ==
    /\ capPc = "exit" /\ playPc = "exit"
    /\ pushPc = "idle" /\ popPc = "idle"

\* C15: when the device keeps failing, the retries come to an end, the
\* session becomes Failed and no push or pop is performed from then on.
C15_FatalDeviceError == DeviceGone ~> SessionFailed

\* The loopback is running.
SessionRunning ==
    \/ prog = "alsa" /\ mainPc = "sleep" /\ gRunning
    \/ prog \in {"vpio", "ios"} /\ unit = "running"

\* A device read reports an error to the capture context.
CaptureError ==
    \/ capPc = "loop" /\ capPc' \notin {"loop", "push", "exit"}
    \/ capPc = "render" /\ capPc' \notin {"render", "push"}

\* A device write reports an error to the playback context.
PlaybackError == playPc = "write" /\ playPc' \notin {"write", "loop"}

\* C16: on a device error mid-session the context re-prepares the stream
\* and goes on; the session stays running, the failed capture pushes no
\* frame, and no error leaves the context.
C16_TransientDeviceError ==
    [][/\ (SessionRunning /\ CaptureError) =>
              /\ capPc' = "prepare"
              /\ capStatus' # "error"
              /\ SessionRunning'
              /\ UNCHANGED <<fifo, nextSeq, accepted>>
       /\ (SessionRunning /\ PlaybackError) =>
              /\ playPc' = "prepare"
              /\ SessionRunning']_vars

\* ------------------------------------------------ frame conditions
\* A step taken inside push, and one taken inside pop.
PushStep == pushFrame' # pushFrame

PopStep == popFrame' # popFrame

\* C21: push never changes the read index; pop never changes the write
\* index nor any storage slot; neither changes the mask (the capacity); the
\* write index changes only in push and the read index only in pop.
C21_SingleWriter ==
    [][/\ PushStep => (r' = r /\ mask' = mask)
       /\ PopStep => (w' = w /\ buf' = buf /\ mask' = mask)
       /\ w' # w => PushStep
       /\ r' # r => PopStep
       /\ DOMAIN buf' = DOMAIN buf]_vars

\* A push of at least one frame and a pop of at least one frame have both
\* run to their return.
C21_Witness ==
    /\ pushPc = "ret" /\ pushCount >= 1
    /\ popPc = "ret" /\ popN >= 1

\* --------------------------------------------------- staging buffer
\* The number of leading elements of the iOS InputCallback's local buf that
\* AudioUnitRender has filled: it was given mData = buf and
\* mDataByteSize = inNumberFrames * sizeof(float), and rendered that many.
StagingWritten ==
    IF prog = "ios" /\ capPc = "push" THEN inNumberFrames ELSE 0

\* The number of leading elements of buf that push has read so far.
StagingRead ==
    IF prog = "ios" /\ capPc = "push" THEN pushI ELSE 0

\* C22: whatever inNumberFrames the platform delivers, the iOS InputCallback
\* writes and reads only indices below kFramesPerBuffer of its local buffer.
C22_StagingBound ==
    /\ StagingWritten <= kFramesPerBuffer
    /\ StagingRead <= kFramesPerBuffer

\* ------------------------------------------------- ALSA playback loss
\* playbackThread leaves snd_pcm_prepare after a failed snd_pcm_writei: the
\* BUFFER_FRAMES frames of this iteration's pop are still in its buf,
\* handed to no device.
LeavesPrepare == prog = "alsa" /\ playPc = "prepare" /\ playPc' # playPc

\* C23: what playbackThread has popped is handed to the device; after a
\* failed write and the re-prepare it writes the same frames again, it does
\* not go back to pop and replace them.
C23_NoLossAfterPop == [][LeavesPrepare => playPc' = "write"]_vars

\* ------------------------------------------------------ ALSA shutdown
\* The ALSA program runs: both threads are started and main is in its loop
\* while (true) sleep_for(1 s).
AlsaRunning == prog = "alsa" /\ mainPc = "sleep"

\* The shutdown sequence has run: gRunning = false, both threads have left
\* their loops and were joined, both handles are closed.
AlsaShutDown ==
    /\ prog = "alsa" /\ mainPc = "closed"
    /\ ~gRunning
    /\ capPc = "exit" /\ playPc = "exit"

\* C24: the running ALSA program reaches its shutdown sequence: main sets
\* gRunning to false, both threads leave their loops, the joins return and
\* the handles are closed.
C24_ShutdownReachable == AlsaRunning ~> AlsaShutDown

====
